---------------------------- MODULE Spec2Model ----------------------------
(*************************************************************************)
(* bulbs/typesystem.py: the JSON type system of the Bulbs graph mapper.  *)
(*                                                                       *)
(* Python values are modelled as records of one shape,                   *)
(*   [t |-> type name, n |-> Int, k |-> Nat, sp |-> STRING,              *)
(*    s |-> sequence of characters, e |-> sequence of values]            *)
(*   int, bool   : n is the number                                       *)
(*   float       : sp = "" and the number is n / 10^k (normalised), or   *)
(*                 sp is one of "nan", "inf", "-inf"                     *)
(*   str         : s is the text, one character per element              *)
(*   list, tuple : e is the elements                                     *)
(*   dict        : e is the items in insertion order, each a 2-tuple     *)
(*   datetime    : n seconds and k microseconds after the epoch          *)
(* The interpreter modelled is Python 3 (line 13 takes its branch).      *)
(*************************************************************************)
EXTENDS Integers, Sequences, FiniteSets, TLC

\* ---------------------------------------------------------------- bounds
MaxStrLen == 3
MaxListLen == 2
NumCallers == 2

\* ---------------------------------------------------------------- values
Val(t, n, k, sp, s, e) == [t |-> t, n |-> n, k |-> k, sp |-> sp, s |-> s, e |-> e]

PyNone == Val("NoneType", 0, 0, "", <<>>, <<>>)
PyBool(b) == Val("bool", IF b THEN 1 ELSE 0, 0, "", <<>>, <<>>)
PyInt(n) == Val("int", n, 0, "", <<>>, <<>>)
PySpecial(sp) == Val("float", 0, 0, sp, <<>>, <<>>)
NaN == PySpecial("nan")
PyStr(s) == Val("str", 0, 0, "", s, <<>>)
PyList(e) == Val("list", 0, 0, "", <<>>, e)
PyTuple(e) == Val("tuple", 0, 0, "", <<>>, e)
PyDict(e) == Val("dict", 0, 0, "", <<>>, e)
PyDatetime(sec, usec) == Val("datetime", sec, usec, "", <<>>, <<>>)

RECURSIVE Pow10(_)
Pow10(k) == IF k = 0 THEN 1 ELSE 10 * Pow10(k - 1)

RECURSIVE PyFloat(_, _)
\* the float n / 10^k, trailing zeros of the fraction dropped
PyFloat(n, k) == IF k > 0 /\ n % 10 = 0 THEN PyFloat(n \div 10, k - 1)
                 ELSE Val("float", n, k, "", <<>>, <<>>)

Abs(n) == IF n < 0 THEN -n ELSE n
IsNumber(v) == v.t \in {"bool", "int", "float"}
IsFinite(v) == IsNumber(v) /\ v.sp = ""

\* ------------------------------------------------- outcomes of an evaluation
\* same: the value returned is the very object that was passed in
Returns(val, same) == [kind |-> "return", val |-> val, exc |-> "", same |-> same, calls |-> <<>>]
Raises(exc) == [kind |-> "raise", val |-> PyNone, exc |-> exc, same |-> FALSE, calls |-> <<>>]
\* the outcome o of a call to function f made by a method body
Called(f, o) == [o EXCEPT !.calls = <<f>> \o o.calls]

\* ------------------------------------------------------------------ text
DigitChars == <<"0", "1", "2", "3", "4", "5", "6", "7", "8", "9">>
IsDigit(c) == \E i \in 1..10 : DigitChars[i] = c
DigitVal(c) == (CHOOSE i \in 1..10 : DigitChars[i] = c) - 1
AllDigits(s) == \A i \in 1..Len(s) : IsDigit(s[i])

RECURSIVE Number(_)
\* the number a sequence of decimal digits writes
Number(s) == IF s = <<>> THEN 0
             ELSE 10 * Number(SubSeq(s, 1, Len(s) - 1)) + DigitVal(s[Len(s)])

RECURSIVE Digits(_)
\* the decimal digits of a natural number
Digits(n) == IF n < 10 THEN <<DigitChars[n + 1]>>
             ELSE Digits(n \div 10) \o <<DigitChars[(n % 10) + 1]>>

RECURSIVE Strip(_)
\* str.strip(): leading and trailing white space removed
Strip(s) == IF s # <<>> /\ s[1] = " " THEN Strip(Tail(s))
            ELSE IF s # <<>> /\ s[Len(s)] = " " THEN Strip(SubSeq(s, 1, Len(s) - 1))
            ELSE s

HasSign(s) == s # <<>> /\ s[1] \in {"+", "-"}
Unsigned(s) == IF HasSign(s) THEN Tail(s) ELSE s
SignOf(s) == IF s # <<>> /\ s[1] = "-" THEN -1 ELSE 1

RECURSIVE Zeros(_)
Zeros(k) == IF k <= 0 THEN <<>> ELSE <<"0">> \o Zeros(k - 1)

\* ------------------------------------------------------------ int(), long()
\* the integer literal grammar of int(str) over sign, digits and white space
IntLiteral(s) == LET b == Unsigned(Strip(s)) IN b # <<>> /\ AllDigits(b)
IntOfLiteral(s) == SignOf(Strip(s)) * Number(Unsigned(Strip(s)))

Trunc(v) == (IF v.n < 0 THEN -1 ELSE 1) * (Abs(v.n) \div Pow10(v.k))

int(v) ==
  CASE v.t = "int" -> Returns(v, TRUE)
    [] v.t = "bool" -> Returns(PyInt(v.n), FALSE)
    [] v.t = "float" /\ v.sp = "" -> Returns(PyInt(Trunc(v)), FALSE)
    [] v.t = "float" /\ v.sp = "nan" -> Raises("ValueError")
    [] v.t = "float" /\ v.sp \in {"inf", "-inf"} -> Raises("OverflowError")
    [] v.t = "str" -> IF IntLiteral(v.s) THEN Returns(PyInt(IntOfLiteral(v.s)), FALSE)
                      ELSE Raises("ValueError")
    [] OTHER -> Raises("TypeError")

\* line 14: long = int
long(v) == int(v)

\* ------------------------------------------------------------------ float()
DotAt(b) == {i \in 1..Len(b) : b[i] = "."}
\* digits, digits "." , "." digits, digits "." digits
FloatLiteral(s) ==
  LET b == Unsigned(Strip(s)) IN
    \/ b # <<>> /\ AllDigits(b)
    \/ \E p \in DotAt(b) :
         /\ DotAt(b) = {p}
         /\ Len(b) > 1
         /\ AllDigits(SubSeq(b, 1, p - 1))
         /\ AllDigits(SubSeq(b, p + 1, Len(b)))
FloatOfLiteral(s) ==
  LET b == Unsigned(Strip(s))
      p == IF DotAt(b) = {} THEN Len(b) + 1 ELSE CHOOSE i \in DotAt(b) : TRUE
      whole == SubSeq(b, 1, p - 1)
      frac == SubSeq(b, p + 1, Len(b))
  IN PyFloat(SignOf(Strip(s)) * Number(whole \o frac), Len(frac))
SpecialLiteral(s) ==
  LET b == Unsigned(Strip(s)) IN
    b \in {<<"n", "a", "n">>, <<"i", "n", "f">>, <<"i", "n", "f", "i", "n", "i", "t", "y">>}
SpecialOfLiteral(s) ==
  LET b == Unsigned(Strip(s)) IN
    IF b = <<"n", "a", "n">> THEN NaN
    ELSE IF SignOf(Strip(s)) < 0 THEN PySpecial("-inf") ELSE PySpecial("inf")

float(v) ==
  CASE v.t = "float" -> Returns(v, TRUE)
    [] v.t \in {"int", "bool"} -> Returns(PyFloat(v.n, 0), FALSE)
    [] v.t = "str" -> IF FloatLiteral(v.s) THEN Returns(FloatOfLiteral(v.s), FALSE)
                      ELSE IF SpecialLiteral(v.s) THEN Returns(SpecialOfLiteral(v.s), FALSE)
                      ELSE Raises("ValueError")
    [] OTHER -> Raises("TypeError")

\* ------------------------------------------------------- str(), unicode()
RECURSIVE Join(_, _)
\* sep.join(parts)
Join(parts, sep) == IF parts = <<>> THEN <<>>
                    ELSE IF Len(parts) = 1 THEN parts[1]
                    ELSE parts[1] \o sep \o Join(Tail(parts), sep)

IntRepr(n) == (IF n < 0 THEN <<"-">> ELSE <<>>) \o Digits(Abs(n))
\* repr of a float in positional notation (magnitudes in [1e-4, 1e16))
FloatRepr(v) ==
  CASE v.sp = "nan" -> <<"n", "a", "n">>
    [] v.sp = "inf" -> <<"i", "n", "f">>
    [] v.sp = "-inf" -> <<"-", "i", "n", "f">>
    [] OTHER ->
       LET d == Digits(Abs(v.n))
           p == Zeros(v.k + 1 - Len(d)) \o d
           whole == SubSeq(p, 1, Len(p) - v.k)
           frac == IF v.k = 0 THEN <<"0">> ELSE SubSeq(p, Len(p) - v.k + 1, Len(p))
       IN (IF v.n < 0 THEN <<"-">> ELSE <<>>) \o whole \o <<".">> \o frac

RECURSIVE Repr(_)
\* repr() of the values a container of the input domain can hold
Repr(v) ==
  CASE v.t = "NoneType" -> <<"N", "o", "n", "e">>
    [] v.t = "bool" -> IF v.n = 1 THEN <<"T", "r", "u", "e">> ELSE <<"F", "a", "l", "s", "e">>
    [] v.t = "int" -> IntRepr(v.n)
    [] v.t = "float" -> FloatRepr(v)
    [] v.t = "str" -> <<"'">> \o v.s \o <<"'">>
    [] v.t = "list" -> <<"[">> \o Join([i \in 1..Len(v.e) |-> Repr(v.e[i])], <<",", " ">>) \o <<"]">>
    [] v.t = "tuple" -> <<"(">> \o Join([i \in 1..Len(v.e) |-> Repr(v.e[i])], <<",", " ">>)
                        \o (IF Len(v.e) = 1 THEN <<",">> ELSE <<>>) \o <<")">>
    [] v.t = "dict" -> <<"{">> \o Join([i \in 1..Len(v.e) |->
                           Repr(v.e[i].e[1]) \o <<":", " ">> \o Repr(v.e[i].e[2])], <<",", " ">>) \o <<"}">>

Pad(n, w) == Zeros(w - Len(Digits(n))) \o Digits(n)
\* str() of a datetime of the first day of the epoch
DatetimeStr(v) ==
  <<"1", "9", "7", "0", "-", "0", "1", "-", "0", "1", " ">>
  \o Pad(v.n \div 3600, 2) \o <<":">> \o Pad((v.n \div 60) % 60, 2) \o <<":">> \o Pad(v.n % 60, 2)
  \o (IF v.k = 0 THEN <<>> ELSE <<".">> \o Pad(v.k, 6))

str(v) ==
  CASE v.t = "str" -> Returns(v, TRUE)
    [] v.t = "datetime" -> Returns(PyStr(DatetimeStr(v)), FALSE)
    [] OTHER -> Returns(PyStr(Repr(v)), FALSE)

\* line 15: unicode = str
unicode(v) == str(v)

\* ------------------------------------------------------------ equality (==)
RECURSIVE PyEq(_, _)
\* a == b.  Inside containers Python compares elements by identity first; a
\* copy made by list() or dict() holds the same objects, so structural
\* equality of two elements stands for their identity.
PyEq(a, b) ==
  LET ElemEq(x, y) == x = y \/ PyEq(x, y) IN
  CASE IsNumber(a) /\ IsNumber(b) ->
         IF a.sp = "nan" \/ b.sp = "nan" THEN FALSE
         ELSE IF a.sp # "" \/ b.sp # "" THEN a.sp = b.sp
         ELSE a.n * Pow10(b.k) = b.n * Pow10(a.k)
    [] a.t = "str" /\ b.t = "str" -> a.s = b.s
    [] a.t = b.t /\ a.t \in {"list", "tuple"} ->
         Len(a.e) = Len(b.e) /\ \A i \in 1..Len(a.e) : ElemEq(a.e[i], b.e[i])
    [] a.t = "dict" /\ b.t = "dict" ->
         /\ Len(a.e) = Len(b.e)
         /\ \A i \in 1..Len(a.e) : \E j \in 1..Len(b.e) :
              ElemEq(a.e[i].e[1], b.e[j].e[1]) /\ ElemEq(a.e[i].e[2], b.e[j].e[2])
    [] a.t = "NoneType" /\ b.t = "NoneType" -> TRUE
    [] a.t = "datetime" /\ b.t = "datetime" -> a.n = b.n /\ a.k = b.k
    [] OTHER -> FALSE

\* ------------------------------------------------------------ list(), dict()
Iterable(v) == v.t \in {"list", "tuple", "str", "dict"}
\* the elements iter(v) yields
Iter(v) ==
  CASE v.t \in {"list", "tuple"} -> v.e
    [] v.t = "str" -> [i \in 1..Len(v.s) |-> PyStr(<<v.s[i]>>)]
    [] v.t = "dict" -> [i \in 1..Len(v.e) |-> v.e[i].e[1]]

list(v) == IF Iterable(v) THEN Returns(PyList(Iter(v)), FALSE) ELSE Raises("TypeError")

RECURSIVE Hashable(_)
Hashable(v) ==
  CASE v.t \in {"list", "dict"} -> FALSE
    [] v.t = "tuple" -> \A i \in 1..Len(v.e) : Hashable(v.e[i])
    [] OTHER -> TRUE

KeyEq(x, y) == x = y \/ PyEq(x, y)
\* d[key] = val on the items of a dict: an equal key keeps its place
SetItem(items, key, val) ==
  IF \E i \in 1..Len(items) : KeyEq(items[i].e[1], key)
  THEN [i \in 1..Len(items) |->
          IF KeyEq(items[i].e[1], key) THEN PyTuple(<<items[i].e[1], val>>) ELSE items[i]]
  ELSE Append(items, PyTuple(<<key, val>>))

RECURSIVE DictUpdate(_, _)
\* dict(iterable): each element must itself yield exactly a key and a value
DictUpdate(items, seq) ==
  IF seq = <<>> THEN Returns(PyDict(items), FALSE)
  ELSE LET x == Head(seq) IN
       IF ~Iterable(x) THEN Raises("TypeError")
       ELSE IF Len(Iter(x)) # 2 THEN Raises("ValueError")
       ELSE IF ~Hashable(Iter(x)[1]) THEN Raises("TypeError")
       ELSE DictUpdate(SetItem(items, Iter(x)[1], Iter(x)[2]), Tail(seq))

dict(v) ==
  CASE v.t = "dict" -> Returns(PyDict(v.e), FALSE)
    [] Iterable(v) /\ v.t # "dict" -> DictUpdate(<<>>, Iter(v))
    [] OTHER -> Raises("TypeError")

\* ------------------------------------- .utils timestamp helpers (line 17)
\* The helpers live outside this file.  to_timestamp gives the epoch seconds
\* of a datetime and keeps no fraction of a second; what it does with any
\* other value is not stated, so it may fail with any of these errors.
HelperErrors == {"AttributeError", "TypeError", "ValueError"}
to_timestamp(v) ==
  IF v.t = "datetime" THEN {Returns(PyInt(v.n), FALSE)}
  ELSE {Raises(x) : x \in HelperErrors}

\* to_datetime gives the datetime of a finite epoch number and fails with a
\* ValueError on anything else.
to_datetime(v) ==
  IF IsFinite(v)
  THEN LET sec == v.n \div Pow10(v.k)
           usec == ((v.n % Pow10(v.k)) * 1000000) \div Pow10(v.k)
       IN {Returns(PyDatetime(sec, usec), FALSE)}
  ELSE {Raises("ValueError")}

\* ------------------------------------------------------------- class Converter
MethodNames == {"to_string", "to_integer", "to_long", "to_float", "to_list",
                "to_dictionary", "to_datetime", "to_null"}

\* the methods the body of class Converter defines (lines 36-55)
ConverterMethods == {"to_string", "to_integer", "to_long", "to_float", "to_list",
                     "to_dictionary", "to_null"}
\* every one of them: raise NotImplementedError
Converter_stub(value) == {Raises("NotImplementedError")}

\* -------------------------------------------------------------- class Database
DatabaseMethods == {"to_string", "to_integer", "to_long", "to_float", "to_list",
                    "to_dictionary", "to_datetime", "to_null"}

\* a body that falls off its end returns None, the one None object
Database_to_string(value) ==
  IF value # PyNone THEN {Called("unicode", unicode(value))}
  ELSE {Returns(PyNone, TRUE)}
\* mutant: the outbound method coerces as the inbound one does
Database_to_integer_coercing(value) == {Called("int", int(value))}
Database_to_integer(value) == {Returns(value, TRUE)}
Database_to_long(value) == {Returns(value, TRUE)}
Database_to_float(value) == {Returns(value, TRUE)}
Database_to_list(value) == {Returns(value, TRUE)}
Database_to_dictionary(value) == {Returns(value, TRUE)}
\* mutant: the timestamp passes through like the other kinds
Database_to_datetime_passthrough(value) == {Returns(value, TRUE)}
Database_to_datetime(value) ==
  IF value # PyNone THEN {Called("to_timestamp", o) : o \in to_timestamp(value)}
  ELSE {Returns(PyNone, TRUE)}
Database_to_null(value) == {Returns(value, TRUE)}

\* ---------------------------------------------------------------- class Python
\* mutant: to_datetime left out, as in Converter
PythonMethods_without_datetime == {"to_string", "to_integer", "to_long", "to_float", "to_list",
                                   "to_dictionary", "to_null"}
PythonMethods == {"to_string", "to_integer", "to_long", "to_float", "to_list",
                  "to_dictionary", "to_datetime", "to_null"}

Python_to_string(value) ==
  IF value # PyNone THEN {Called("unicode", unicode(value))}
  ELSE {Returns(PyNone, TRUE)}
\* mutant: no test for None
Python_to_integer_unguarded(value) == {Called("int", int(value))}
Python_to_integer(value) ==
  IF value # PyNone THEN {Called("int", int(value))}
  ELSE {Returns(PyNone, TRUE)}
Python_to_long(value) ==
  IF value # PyNone THEN {Called("long", long(value))}
  ELSE {Returns(PyNone, TRUE)}
\* mutant: the body of to_integer copied
Python_to_float_as_int(value) ==
  IF value # PyNone THEN {Called("int", int(value))}
  ELSE {Returns(PyNone, TRUE)}
Python_to_float(value) ==
  IF value # PyNone THEN {Called("float", float(value))}
  ELSE {Returns(PyNone, TRUE)}
Python_to_list(value) ==
  IF value # PyNone THEN {Called("list", list(value))}
  ELSE {Returns(PyNone, TRUE)}
Python_to_dictionary(value) ==
  IF value # PyNone THEN {Called("dict", dict(value))}
  ELSE {Returns(PyNone, TRUE)}
Python_to_datetime(value) ==
  IF value # PyNone THEN {Called("to_datetime", o) : o \in to_datetime(value)}
  ELSE {Returns(PyNone, TRUE)}
\* bool(v): the truth value of v
Truthy(v) ==
  CASE v.t = "NoneType" -> FALSE
    [] IsNumber(v) -> v.sp # "" \/ v.n # 0
    [] v.t = "str" -> v.s # <<>>
    [] v.t \in {"list", "tuple", "dict"} -> v.e # <<>>
    [] OTHER -> TRUE
\* mutant: "if value:" in place of "if value is not None:"
Python_to_null_truthy(value) ==
  IF Truthy(value) THEN {Raises("ValueError")}
  ELSE {Returns(PyNone, TRUE)}
Python_to_null(value) ==
  IF value # PyNone THEN {Raises("ValueError")}
  ELSE {Returns(PyNone, TRUE)}

\* ------------------------------------------------------------ method lookup
\* the class whose body defines name, searched along the bases of cls;
\* "object" when none does (the call fails with AttributeError)
Lookup(cls, name) ==
  CASE cls = "Database" /\ name \in DatabaseMethods -> "Database"
    [] cls = "Python" /\ name \in PythonMethods -> "Python"
    [] cls \in {"Converter", "Database", "Python"} /\ name \in ConverterMethods -> "Converter"
    [] OTHER -> "object"

Database_call(name, value) ==
  CASE name = "to_string" -> Database_to_string(value)
    [] name = "to_integer" -> Database_to_integer(value)
    [] name = "to_long" -> Database_to_long(value)
    [] name = "to_float" -> Database_to_float(value)
    [] name = "to_list" -> Database_to_list(value)
    [] name = "to_dictionary" -> Database_to_dictionary(value)
    [] name = "to_datetime" -> Database_to_datetime(value)
    [] name = "to_null" -> Database_to_null(value)

Python_call(name, value) ==
  CASE name = "to_string" -> Python_to_string(value)
    [] name = "to_integer" -> Python_to_integer(value)
    [] name = "to_long" -> Python_to_long(value)
    [] name = "to_float" -> Python_to_float(value)
    [] name = "to_list" -> Python_to_list(value)
    [] name = "to_dictionary" -> Python_to_dictionary(value)
    [] name = "to_datetime" -> Python_to_datetime(value)
    [] name = "to_null" -> Python_to_null(value)

\* the outcomes self.name(value) can have
Invoke(self, name, value) ==
  CASE Lookup(self.cls, name) = "Database" -> Database_call(name, value)
    [] Lookup(self.cls, name) = "Python" -> Python_call(name, value)
    [] Lookup(self.cls, name) = "Converter" -> Converter_stub(value)
    [] OTHER -> {Raises("AttributeError")}

\* ------------------------------------------------------------ input domain
Chars == {"4", "2", "a", "n", "-", ".", " "}
SeqsUpTo(S, n) == UNION {[1..m -> S] : m \in 0..n}

Scalars == {PyNone, PyBool(TRUE), PyBool(FALSE), PyInt(-1), PyInt(0), PyInt(42),
            PyFloat(0, 0), PyFloat(42, 0), PyFloat(37, 1), PyFloat(-37, 1),
            NaN, PySpecial("inf"), PySpecial("-inf")}
Strs == {PyStr(s) : s \in SeqsUpTo(Chars, MaxStrLen)}
Elems == {PyInt(1), PyBool(TRUE), PyStr(<<"a">>), PyStr(<<"a", "2">>), NaN,
          PyTuple(<<PyInt(1), PyStr(<<"a">>)>>), PyTuple(<<PyList(<<>>), PyInt(1)>>)}
Lists == {PyList(e) : e \in SeqsUpTo(Elems, MaxListLen)}
Tuples == {PyTuple(e) : e \in SeqsUpTo(Elems, MaxListLen)}
DictKeys == {PyInt(1), PyStr(<<"a">>), PyTuple(<<PyInt(1), PyStr(<<"a">>)>>)}
DictVals == {PyInt(1), NaN, PyList(<<>>)}
DictItems == {PyTuple(<<k, v>>) : k \in DictKeys, v \in DictVals}
Dicts == {PyDict(e) : e \in {x \in SeqsUpTo(DictItems, MaxListLen) :
            \A i, j \in 1..Len(x) : i # j => ~KeyEq(x[i].e[1], x[j].e[1])}}
Datetimes == {PyDatetime(sec, usec) : sec \in {0, 42}, usec \in {0, 500000}}
Values == Scalars \cup Strs \cup Lists \cup Tuples \cup Dicts \cup Datetimes

\* the values concurrent callers pass: absence, and a text that some methods
\* convert and others reject
ConcValues == {PyNone, PyStr(<<"4", "2">>)}

\* ------------------------------------------------------------------- state
VARIABLES
  JSONTypeSystem,  \* the class attributes content_type, database, python
  frame,           \* per caller: the call it is in (self, method, value)
  outcome          \* per caller: what its last call returned or raised

vars == <<JSONTypeSystem, frame, outcome>>

Callers == 1..NumCallers

New(cls, id) == [cls |-> cls, id |-> id]
NoObject == New("", 0)
NoValue == Val("", 0, 0, "", <<>>, <<>>)
NoOutcome == [kind |-> "none", val |-> PyNone, exc |-> "", same |-> FALSE, calls |-> <<>>]
Idle == [pc |-> "idle", self |-> NoObject, method |-> "", value |-> NoValue, src |-> NoValue]

\* the converters a caller can reach: the two of the descriptor, and a
\* converter that overrides nothing
Receivers == {JSONTypeSystem.database, JSONTypeSystem.python, New("Converter", 3)}

\* module load: the class body of JSONTypeSystem runs once
Init ==
  /\ JSONTypeSystem = [content_type |-> "application/json",
                       database |-> New("Database", 1),
                       python |-> New("Python", 2)]
  /\ frame = [c \in Callers |-> Idle]
  /\ outcome = [c \in Callers |-> NoOutcome]

\* caller c enters self.method(value), for a converter of R and a value of
\* V: the argument is bound in a new frame
Call(c, R, V) ==
  /\ frame[c].pc = "idle"
  /\ \E self \in R, method \in MethodNames, value \in V :
       frame' = [frame EXCEPT ![c] = [pc |-> "body", self |-> self, method |-> method,
                                      value |-> value, src |-> NoValue]]
  /\ outcome' = [outcome EXCEPT ![c] = NoOutcome]
  /\ UNCHANGED JSONTypeSystem

\* mutant: the converter keeps the argument in an attribute of the shared
\* instance, so the body reads the argument of whichever call bound it last
Return_shared(c) ==
  /\ frame[c].pc = "body"
  /\ \E d \in Callers :
       /\ frame[d].pc = "body"
       /\ \E o \in Invoke(frame[c].self, frame[c].method, frame[d].value) :
            outcome' = [outcome EXCEPT ![c] = o]
  /\ frame' = [frame EXCEPT ![c].pc = "done"]
  /\ UNCHANGED JSONTypeSystem

\* the body runs to its return or raise
Return(c) ==
  /\ frame[c].pc = "body"
  /\ \E o \in Invoke(frame[c].self, frame[c].method, frame[c].value) :
       outcome' = [outcome EXCEPT ![c] = o]
  /\ frame' = [frame EXCEPT ![c].pc = "done"]
  /\ UNCHANGED JSONTypeSystem

\* the value the outbound converter returned goes through the inbound
\* converter's method of the same kind; src keeps the application value
RoundTrip(c) ==
  /\ frame[c].pc = "done"
  /\ frame[c].self = JSONTypeSystem.database
  /\ frame[c].src = NoValue
  /\ outcome[c].kind = "return"
  /\ frame' = [frame EXCEPT ![c] = [pc |-> "body", self |-> JSONTypeSystem.python,
                                    method |-> frame[c].method,
                                    value |-> outcome[c].val, src |-> frame[c].value]]
  /\ outcome' = [outcome EXCEPT ![c] = NoOutcome]
  /\ UNCHANGED JSONTypeSystem

\* the caller has taken the outcome and is ready for its next call
Resume(c) ==
  /\ frame[c].pc = "done"
  /\ frame' = [frame EXCEPT ![c] = Idle]
  /\ outcome' = [outcome EXCEPT ![c] = NoOutcome]
  /\ UNCHANGED JSONTypeSystem

\* one caller: the mapping layer converting property values one at a time
Next ==
  \/ Call(1, Receivers, Values)
  \/ Return(1)
  \/ RoundTrip(1)
  \/ Resume(1)

Spec == Init /\ [][Next]_vars

\* several callers in any interleaving
NextConc ==
  \/ \E c \in Callers : Call(c, {JSONTypeSystem.database, JSONTypeSystem.python}, ConcValues)
  \/ \E c \in Callers : Return(c)
  \/ \E c \in Callers : Resume(c)

SpecConc == Init /\ [][NextConc]_vars

\* ================================================================= claims
Done(c) == frame[c].pc = "done"
Outbound(c) == frame[c].self = JSONTypeSystem.database /\ frame[c].src = NoValue
\* the inbound leg of a round trip: frame[c].src went out, frame[c].value came back
Inbound(c) == frame[c].self = JSONTypeSystem.python /\ frame[c].src # NoValue

RoundTripKinds == {"to_string", "to_integer", "to_long", "to_float", "to_list", "to_dictionary"}
WellTyped(method, v) ==
  CASE method = "to_string" -> v.t = "str"
    [] method \in {"to_integer", "to_long"} -> v.t \in {"int", "bool"}
    [] method = "to_float" -> v.t = "float"
    [] method = "to_list" -> v.t = "list"
    [] method = "to_dictionary" -> v.t = "dict"
    [] OTHER -> FALSE

RoundTripsFor(c, ok(_)) ==
  /\ (Done(c) /\ Outbound(c) /\ WellTyped(frame[c].method, frame[c].value) /\ ok(frame[c].value))
       => outcome[c].kind = "return"
  /\ (Done(c) /\ Inbound(c) /\ WellTyped(frame[c].method, frame[c].src) /\ ok(frame[c].src))
       => outcome[c].kind = "return" /\ PyEq(outcome[c].val, frame[c].src)

\* C1 as stated: for each of the six kinds k and every value v well-typed for
\* k, Database.to_k(v) returns and Python.to_k of the result returns a value
\* equal (==) to v.
C1_RoundTripEveryValue ==
  LET any(v) == TRUE IN \A c \in Callers : RoundTripsFor(c, any)

\* C1 amended: the same for every well-typed v other than the float NaN.
C1_RoundTripIdentity ==
  LET notNaN(v) == v # NaN IN \A c \in Callers : RoundTripsFor(c, notNaN)

C1_Witness ==
  \E c \in Callers :
    /\ Done(c) /\ Inbound(c) /\ frame[c].method = "to_dictionary"
    /\ frame[c].src.t = "dict" /\ Len(frame[c].src.e) = 2
    /\ outcome[c].kind = "return" /\ ~outcome[c].same
    /\ PyEq(outcome[c].val, frame[c].src)

\* C2: for each of the seven methods other than to_null, Database.k(None)
\* and Python.k(None) return None, and no coercion or timestamp helper is
\* called on the way.
C2_AbsenceShortCircuit ==
  \A c \in Callers :
    (/\ Done(c)
     /\ frame[c].self \in {JSONTypeSystem.database, JSONTypeSystem.python}
     /\ frame[c].method \in MethodNames \ {"to_null"}
     /\ frame[c].value = PyNone)
    => /\ outcome[c].kind = "return"
       /\ outcome[c].val = PyNone
       /\ outcome[c].calls = <<>>

C2_Witness ==
  \E c \in Callers :
    /\ Done(c) /\ frame[c].self = JSONTypeSystem.python
    /\ frame[c].method = "to_integer" /\ frame[c].value = PyNone
    /\ outcome[c].kind = "return"

Falsy == {PyInt(0), PyBool(FALSE), PyFloat(0, 0), PyStr(<<>>), PyList(<<>>), PyTuple(<<>>), PyDict(<<>>)}

\* C3: Python.to_null returns None for None and raises ValueError, returning
\* nothing, for every present value, the falsy ones included.
C3_ToNullAssertsNull ==
  \A c \in Callers :
    (Done(c) /\ frame[c].self = JSONTypeSystem.python /\ frame[c].method = "to_null")
    => IF frame[c].value = PyNone
       THEN outcome[c].kind = "return" /\ outcome[c].val = PyNone
       ELSE outcome[c].kind = "raise" /\ outcome[c].exc = "ValueError"

C3_Witness ==
  \E c \in Callers :
    /\ Done(c) /\ frame[c].self = JSONTypeSystem.python /\ frame[c].method = "to_null"
    /\ frame[c].value \in Falsy
    /\ outcome[c].kind = "raise"

\* the values that denote an integer, read generously: integers, booleans,
\* integer literals, and finite floats (by their integer part)
DenotesInt(v) == v.t \in {"int", "bool"} \/ (v.t = "str" /\ IntLiteral(v.s)) \/ (v.t = "float" /\ v.sp = "")
IntDenoted(v) == IF v.t = "str" THEN IntOfLiteral(v.s) ELSE Trunc(v)

\* C4: Python.to_integer and Python.to_long of a present value return the
\* integer it denotes when it denotes one, and raise ValueError otherwise.
C4_IntegerOrValueError ==
  \A c \in Callers :
    (/\ Done(c) /\ frame[c].self = JSONTypeSystem.python
     /\ frame[c].method \in {"to_integer", "to_long"}
     /\ frame[c].value # PyNone)
    => IF DenotesInt(frame[c].value)
       THEN outcome[c].kind = "return" /\ outcome[c].val = PyInt(IntDenoted(frame[c].value))
       ELSE outcome[c].kind = "raise" /\ outcome[c].exc = "ValueError"

\* C5: every failure of a method of the inbound converter is a ValueError.
C5_SingleErrorKind ==
  \A c \in Callers :
    (Done(c) /\ frame[c].self = JSONTypeSystem.python /\ outcome[c].kind = "raise")
    => outcome[c].exc = "ValueError"

C7_Descriptor ==
  /\ JSONTypeSystem.content_type = "application/json"
  /\ JSONTypeSystem.database # JSONTypeSystem.python
  /\ JSONTypeSystem.database.cls = "Database"
  /\ JSONTypeSystem.python.cls = "Python"
  /\ \A m \in MethodNames :
       /\ Lookup(JSONTypeSystem.database.cls, m) = "Database"
       /\ Lookup(JSONTypeSystem.python.cls, m) = "Python"
  /\ \A c \in Callers :
       (Done(c) /\ frame[c].self \in {JSONTypeSystem.database, JSONTypeSystem.python})
       => ~(outcome[c].kind = "raise" /\ outcome[c].exc \in {"NotImplementedError", "AttributeError"}
            /\ outcome[c].calls = <<>>)

C7_Witness ==
  \E c \in Callers :
    /\ Done(c) /\ frame[c].self = JSONTypeSystem.python
    /\ frame[c].method = "to_datetime" /\ frame[c].value = PyInt(42)
    /\ outcome[c].kind = "return"

\* the helper pair is inverse at T
HelpersInverseAt(T) ==
  \A o \in to_timestamp(T) : o.kind = "return" /\ to_datetime(o.val) = {Returns(T, FALSE)}

\* C8: for a present timestamp T, Database.to_datetime(T) is exactly what
\* the helper to_timestamp gives for T, Python.to_datetime of that result is
\* exactly what the helper to_datetime gives for it, and the round trip
\* equals T wherever the two helpers are inverse at T.
C8_DatetimeRoundTrip ==
  \A c \in Callers :
    /\ (Done(c) /\ Outbound(c) /\ frame[c].method = "to_datetime" /\ frame[c].value.t = "datetime")
         => outcome[c] \in {Called("to_timestamp", o) : o \in to_timestamp(frame[c].value)}
    /\ (Done(c) /\ Inbound(c) /\ frame[c].method = "to_datetime" /\ frame[c].src.t = "datetime")
         => /\ frame[c].value \in {o.val : o \in to_timestamp(frame[c].src)}
            /\ outcome[c] \in {Called("to_datetime", o) : o \in to_datetime(frame[c].value)}
            /\ HelpersInverseAt(frame[c].src)
                 => outcome[c].kind = "return" /\ PyEq(outcome[c].val, frame[c].src)

C8_Witness ==
  \E c \in Callers :
    /\ Done(c) /\ Inbound(c) /\ frame[c].method = "to_datetime"
    /\ frame[c].src = PyDatetime(42, 0)
    /\ HelpersInverseAt(frame[c].src)
    /\ outcome[c].kind = "return" /\ outcome[c].val = frame[c].src

\* C9: every one of the eight methods, called on a converter that overrides
\* none, is found declared in class Converter and raises NotImplementedError.
C9_AbstractContract ==
  \A c \in Callers :
    (Done(c) /\ frame[c].self.cls = "Converter" /\ frame[c].method \in MethodNames)
    => /\ Lookup(frame[c].self.cls, frame[c].method) = "Converter"
       /\ outcome[c].kind = "raise" /\ outcome[c].exc = "NotImplementedError"

\* C10: in every step of every interleaving of callers the descriptor keeps
\* its three fields, a call that ends leaves its argument as it was passed
\* and ends in an outcome its own receiver, method and argument determine,
\* and no step of one caller touches the call or the outcome of another.
C10_Stateless ==
  [][/\ JSONTypeSystem' = JSONTypeSystem
     /\ \A c \in Callers :
          /\ (frame[c].pc = "body" /\ frame'[c].pc = "done")
               => /\ frame'[c].value = frame[c].value
                  /\ outcome'[c] \in Invoke(frame[c].self, frame[c].method, frame[c].value)
          /\ (frame'[c] # frame[c] \/ outcome'[c] # outcome[c])
               => \A d \in Callers \ {c} : frame'[d] = frame[d] /\ outcome'[d] = outcome[d]
    ]_vars

C10_Witness ==
  \E c, d \in Callers :
    /\ c # d /\ Done(c) /\ Done(d)
    /\ frame[c].self = frame[d].self /\ frame[c].method = frame[d].method
    /\ frame[c].value # frame[d].value
    /\ outcome[c].kind = "raise" /\ outcome[d].kind = "return"

=============================================================================
